---------------------------- MODULE Spec2Model ----------------------------
(***************************************************************************)
(* A model of the cogserver network layer:                                 *)
(*   opencog/network/ServerSocket.cc  (connection lifecycle, registry,     *)
(*                                     shutdown, telnet delimiter scanner) *)
(*   opencog/network/WebSocket.cc     (frame decoder and encoder)          *)
(*                                                                         *)
(* Six specifications share the variables below:                           *)
(*   Spec      several connections, their owning threads and external      *)
(*             threads calling SetCloseAndDelete                           *)
(*   SpecLine  one connection reading a byte stream through read_until,    *)
(*             match_eol_or_escape and getline                             *)
(*   SpecScan  match_eol_or_escape applied to every small buffer, and the  *)
(*             scan / refill loop of read_until                            *)
(*   SpecFrame get_websocket_line on the frames of a client, and           *)
(*             send_websocket                                              *)
(*   SpecShake HandshakeLine on the lines of a handshake, fed by the read  *)
(*             loop of handle_connection                                   *)
(*   SpecStats display_stats on its own thread against the connections of  *)
(*             Spec, _sock_lock and _asio_crash held step by step          *)
(***************************************************************************)
EXTENDS Integers, Sequences, FiniteSets, TLC

(***************************************************************************)
(* Bounds of the model.                                                    *)
(***************************************************************************)
NConns == 2          \* connections of Spec
NThreads == 1        \* external threads calling SetCloseAndDelete
MaxWire == 1         \* bytes a peer sends on one connection in Spec
MaxLineWire == 3     \* bytes the peer sends in SpecLine
MaxErrors == 1       \* unexpected read errors logged per connection
MaxScanLen == 3      \* bytes of the buffer of SpecScan
MaxPay == 5          \* payload bytes of a frame whose bytes are enumerated
MaxCtl == 1          \* ping and pong frames sent before the last frame

(***************************************************************************)
(* Bytes the code names.                                                   *)
(***************************************************************************)
IAC == 255           \* #define IAC 0xff
LF == 10             \* '\n'
EOT == 4             \* 0x04, ctrl-D
CR == 13             \* '\r'
TelnetMax == 240     \* 0xf0

Conns == 1..NConns
Threads == 1..NThreads

\* The bytes streams are drawn from: every class the scanner tells apart.
LineBytes == {LF, EOT, CR, 97, 244, IAC}
ScanBytes == LineBytes \cup {5}
WireBytes == {LF, 97}

RECURSIVE SeqsUpTo(_, _)
SeqsUpTo(S, n) ==
    IF n = 0 THEN {<<>>}
    ELSE LET shorter == SeqsUpTo(S, n - 1)
         IN  shorter \cup {Append(s, x) : s \in {q \in shorter : Len(q) = n - 1}, x \in S}

VARIABLES
    pc,          \* per connection: where its object and owning thread are
    socket,      \* per connection: the _socket pointer: "null", "live", "dangling"
    sockst,      \* per connection: the socket it points to: "open", "shut", "closed"
    released,    \* per connection: how many times the socket was deleted
    status,      \* per connection: _status
    tid,         \* per connection: _tid
    script,      \* per connection: the bytes the peer sends, in order
    rcvd,        \* per connection: how many of them read_some has returned
    buf,         \* per connection: the streambuf b of handle_connection
    searchPos,   \* per connection: search_position of read_until
    line,        \* per connection: the argument of the running OnLine call
    delivered,   \* per connection: the OnLine calls made so far
    errors,      \* per connection: read errors logged at error level
    sock_list,   \* _sock_list
    sock_lock,   \* holder of _sock_lock
    asio_crash,  \* holder of _asio_crash
    tpc,         \* per external thread: its place in SetCloseAndDelete
    ttarget,     \* per external thread: the connection it called it on
    fault,       \* what a SetCloseAndDelete call dereferenced, when not a live socket
    halted,      \* the process has crashed
    scanBuf,     \* SpecScan: the streambuf read_until searches
    scanFeed,    \* SpecScan: the bytes still to arrive
    scanPos,     \* SpecScan: search_position of read_until
    scanRes,     \* SpecScan: what the last scanner call returned
    hostLE,      \* SpecFrame: the host stores a uint32_t low byte first
    fin,         \* SpecFrame: the bytes the client sent, not yet read
    fpc,         \* SpecFrame: where get_websocket_line / send_websocket is
    opcode,      \* SpecFrame: opcode of get_websocket_line
    funit,       \* SpecFrame: the string get_websocket_line returned
    fsized,      \* SpecFrame: blob.size() of the last get_websocket_data, -1 if never sized
    fout,        \* SpecFrame: the bytes handed to Send, in order
    fcmd,        \* SpecFrame: the argument of send_websocket
    fmain,       \* SpecFrame: the last frame the client sent, as it built it
    fctl,        \* SpecFrame: the ping and pong frames the client sent before it
    hpc,         \* SpecShake: where the owning thread of the connection is
    hweb,        \* SpecShake: the connection serves WebSocket: OnLine runs the handshake
    hscript,     \* SpecShake: the lines the peer sends, in order
    hnext,       \* SpecShake: how many of them the read loop has taken
    got_first_line,      \* _got_first_line
    got_http_header,     \* _got_http_header
    got_websock_header,  \* _got_websock_header
    do_frame_io,         \* _do_frame_io
    url,         \* _url
    webkey,      \* _webkey
    hsent,       \* SpecShake: what was handed to Send, in order
    hconn,       \* SpecShake: the OnConnection calls made, in order
    hread,       \* SpecShake: how the last unit was read
    spc,         \* SpecStats: where the thread calling display_stats is
    stodo,       \* SpecStats: the connections its loop has yet to visit
    srows        \* SpecStats: what connection_stats read, row by row

connVars == <<pc, socket, sockst, released, status, tid, script, rcvd, buf,
              searchPos, line, delivered, errors>>
sharedVars == <<sock_list, sock_lock, asio_crash, fault, halted>>
extVars == <<tpc, ttarget>>
scanVars == <<scanBuf, scanFeed, scanPos, scanRes>>
frameVars == <<hostLE, fin, fpc, opcode, funit, fsized, fout, fcmd, fmain, fctl>>
shakeVars == <<hpc, hweb, hscript, hnext, got_first_line, got_http_header,
               got_websock_header, do_frame_io, url, webkey, hsent, hconn, hread>>
statsVars == <<spc, stodo, srows>>
pureVars == <<scanVars, frameVars, shakeVars, statsVars>>
vars == <<connVars, sharedVars, extVars, pureVars>>

Free == <<"free">>
Owner(c) == <<"conn", c>>
Ext(t) == <<"ext", t>>

(***************************************************************************)
(* match_eol_or_escape: scan b from offset begin; pos is the offset just   *)
(* past the last byte examined, found whether that byte ended a unit.      *)
(***************************************************************************)
RECURSIVE ScanFrom(_, _, _)
ScanFrom(b, i, telnet_mode) ==
    IF i > Len(b) THEN [pos |-> Len(b), found |-> FALSE]
    ELSE LET c == b[i]
             tm == telnet_mode \/ c = IAC
         IN  IF c = LF \/ c = EOT \/ (tm /\ c <= TelnetMax)
             THEN [pos |-> i, found |-> TRUE]
             ELSE ScanFrom(b, i + 1, tm)

\* A scanner whose telnet mode lasts for one byte only: the byte right after
\* an IAC ends the unit if it is <= 0xf0, and later bytes do not.
RECURSIVE ScanNextOnly(_, _, _)
ScanNextOnly(b, i, after_iac) ==
    IF i > Len(b) THEN [pos |-> Len(b), found |-> FALSE]
    ELSE LET c == b[i]
         IN  IF c = LF \/ c = EOT \/ (after_iac /\ c <= TelnetMax)
             THEN [pos |-> i, found |-> TRUE]
             ELSE ScanNextOnly(b, i + 1, c = IAC)

match_next_only(b, begin) == ScanNextOnly(b, begin + 1, FALSE)

\* A scanner that does not treat 0x04 as the end of a unit.
RECURSIVE ScanNoEot(_, _, _)
ScanNoEot(b, i, telnet_mode) ==
    IF i > Len(b) THEN [pos |-> Len(b), found |-> FALSE]
    ELSE LET c == b[i]
             tm == telnet_mode \/ c = IAC
         IN  IF c = LF \/ (tm /\ c <= TelnetMax)
             THEN [pos |-> i, found |-> TRUE]
             ELSE ScanNoEot(b, i + 1, tm)

match_no_eot(b, begin) == ScanNoEot(b, begin + 1, FALSE)

match_eol_or_escape(b, begin) == ScanFrom(b, begin + 1, FALSE)

(***************************************************************************)
(* std::getline on the streambuf: the bytes before the first LF, which is  *)
(* consumed and dropped; the whole buffer when it holds no LF.             *)
(***************************************************************************)
FirstLF(b) ==
    IF \E i \in 1..Len(b) : b[i] = LF
    THEN CHOOSE i \in 1..Len(b) : b[i] = LF /\ \A j \in 1..(i - 1) : b[j] # LF
    ELSE 0

\* A getline that reads on to the last LF of the buffer.
getline_to_last_lf(b) ==
    LET S == {i \in 1..Len(b) : b[i] = LF}
        j == IF S = {} THEN 0 ELSE CHOOSE i \in S : \A k \in S : k <= i
    IN  IF j = 0 THEN [line |-> b, rest |-> <<>>]
        ELSE [line |-> SubSeq(b, 1, j - 1), rest |-> SubSeq(b, j + 1, Len(b))]

getline(b) ==
    LET j == FirstLF(b)
    IN  IF j = 0 THEN [line |-> b, rest |-> <<>>]
        ELSE [line |-> SubSeq(b, 1, j - 1), rest |-> SubSeq(b, j + 1, Len(b))]

\* if (not line.empty() and line[line.length()-1] == '\r') line.erase(line.end()-1)
StripCR(l) ==
    IF Len(l) > 0 /\ l[Len(l)] = CR THEN SubSeq(l, 1, Len(l) - 1) ELSE l

(***************************************************************************)
(* The registry: add_sock and rem_sock, each under _sock_lock.             *)
(***************************************************************************)
add_sock(list, ss) == list \cup {ss}

\* A rem_sock that erases nothing.
rem_sock_keeps(list, ss) == list

rem_sock(list, ss) == list \ {ss}

(***************************************************************************)
(* ServerSocket::ServerSocket, run by the listener: the fields, then       *)
(* add_sock(this).                                                         *)
(***************************************************************************)
Construct(c) ==
    /\ ~halted
    /\ UNCHANGED pureVars
    /\ pc[c] = "none"
    /\ sock_lock = Free
    /\ pc' = [pc EXCEPT ![c] = "created"]
    /\ socket' = [socket EXCEPT ![c] = "null"]
    /\ status' = [status EXCEPT ![c] = "start"]
    /\ tid' = [tid EXCEPT ![c] = 0]
    /\ sock_list' = add_sock(sock_list, c)
    /\ UNCHANGED <<sockst, released, script, rcvd, buf, searchPos, line,
                   delivered, errors, sock_lock, asio_crash, fault, halted, extVars>>

\* ServerSocket::set_connection: _socket = sock (no socket was held before).
set_connection(c) ==
    /\ ~halted
    /\ UNCHANGED pureVars
    /\ pc[c] = "created"
    /\ pc' = [pc EXCEPT ![c] = "connected"]
    /\ socket' = [socket EXCEPT ![c] = "live"]
    /\ sockst' = [sockst EXCEPT ![c] = "open"]
    /\ UNCHANGED <<released, status, tid, script, rcvd, buf, searchPos, line,
                   delivered, errors, sharedVars, extVars>>

(***************************************************************************)
(* ServerSocket::handle_connection, run by the connection's own thread.    *)
(***************************************************************************)
\* _tid = gettid(); OnConnection(); boost::asio::streambuf b;
HandleConnection(c) ==
    /\ ~halted
    /\ UNCHANGED pureVars
    /\ pc[c] = "connected"
    /\ pc' = [pc EXCEPT ![c] = "loop"]
    /\ tid' = [tid EXCEPT ![c] = c]
    /\ buf' = [buf EXCEPT ![c] = <<>>]
    /\ UNCHANGED <<socket, sockst, released, status, script, rcvd, searchPos,
                   line, delivered, errors, sharedVars, extVars>>

\* The top of while (true): _status = "iwait"; read_until starts at offset 0.
LoopTop(c) ==
    /\ ~halted
    /\ UNCHANGED pureVars
    /\ pc[c] = "loop"
    /\ pc' = [pc EXCEPT ![c] = "scan"]
    /\ status' = [status EXCEPT ![c] = "iwait"]
    /\ searchPos' = [searchPos EXCEPT ![c] = 0]
    /\ UNCHANGED <<socket, sockst, released, tid, script, rcvd, buf, line,
                   delivered, errors, sharedVars, extVars>>

\* The unit getline takes from the buffer, and the OnLine call's record:
\* the unit, how many bytes of the stream have left the buffer by then, and
\* whether the call is the one made after the loop, and where the match of
\* the scanner ended (for the call after the loop, which follows no match,
\* the end of the unit).
TakeLine(c) ==
    LET g == getline(buf[c])
    IN  [unit |-> StripCR(g.line), rest |-> g.rest,
         upto |-> rcvd[c] - Len(g.rest)]

\* Where in the stream the scanner's match ends: the bytes that left the
\* buffer before, and the bytes of the buffer up to the iterator it returned.
MatchOffset(c) ==
    (rcvd[c] - Len(buf[c])) + match_eol_or_escape(buf[c], searchPos[c]).pos

\* read_until calls the scanner on the bytes from search_position on. A match
\* ends read_until: getline, the CR strip, _status = " run ", OnLine(line).
ScanMatch(c) ==
    /\ ~halted
    /\ UNCHANGED pureVars
    /\ pc[c] = "scan"
    /\ match_eol_or_escape(buf[c], searchPos[c]).found
    /\ LET t == TakeLine(c)
       IN  /\ buf' = [buf EXCEPT ![c] = t.rest]
           /\ line' = [line EXCEPT ![c] = t.unit]
           /\ delivered' = [delivered EXCEPT
                              ![c] = Append(@, [unit |-> t.unit, upto |-> t.upto,
                                                final |-> FALSE,
                                                match |-> MatchOffset(c)])]
    /\ status' = [status EXCEPT ![c] = "run"]
    /\ pc' = [pc EXCEPT ![c] = "online"]
    /\ UNCHANGED <<socket, sockst, released, tid, script, rcvd, searchPos,
                   errors, sharedVars, extVars>>

\* No match: the next search starts at the new data, and read_some is called.
ScanNoMatch(c) ==
    /\ ~halted
    /\ UNCHANGED pureVars
    /\ pc[c] = "scan"
    /\ ~match_eol_or_escape(buf[c], searchPos[c]).found
    /\ searchPos' = [searchPos EXCEPT ![c] = match_eol_or_escape(buf[c], searchPos[c]).pos]
    /\ pc' = [pc EXCEPT ![c] = "recv"]
    /\ UNCHANGED <<socket, sockst, released, status, tid, script, rcvd, buf,
                   line, delivered, errors, sharedVars, extVars>>

\* read_some returns some of the bytes the peer has sent.
RecvData(c) ==
    /\ ~halted
    /\ UNCHANGED pureVars
    /\ pc[c] = "recv"
    /\ sockst[c] \in {"open", "shut"}
    /\ \E k \in 1..(Len(script[c]) - rcvd[c]) :
          /\ buf' = [buf EXCEPT ![c] = @ \o SubSeq(script[c], rcvd[c] + 1, rcvd[c] + k)]
          /\ rcvd' = [rcvd EXCEPT ![c] = @ + k]
    /\ pc' = [pc EXCEPT ![c] = "scan"]
    /\ UNCHANGED <<socket, sockst, released, status, tid, script, searchPos,
                   line, delivered, errors, sharedVars, extVars>>

\* read_until throws eof (the peer closed after its last byte, or the socket
\* was shut down), connection_reset or not_connected: break.
RecvBenign(c) ==
    /\ ~halted
    /\ UNCHANGED pureVars
    /\ pc[c] = "recv"
    /\ \E e \in {"eof", "connection_reset", "not_connected"} :
          /\ sockst[c] # "closed"
          /\ e = "eof" => (rcvd[c] = Len(script[c]) \/ sockst[c] = "shut")
    /\ pc' = [pc EXCEPT ![c] = "drain"]
    /\ UNCHANGED <<socket, sockst, released, status, tid, script, rcvd, buf,
                   searchPos, line, delivered, errors, sharedVars, extVars>>

\* read_until throws any other system_error (bad_descriptor on a closed
\* socket, a timeout, ...): logger().error(...), and the while loop goes on.
\* errors counts the log lines, up to MaxErrors and no further.
RecvOther(c) ==
    /\ ~halted
    /\ UNCHANGED pureVars
    /\ pc[c] = "recv"
    /\ sockst[c] \in {"open", "closed"}
    /\ errors' = [errors EXCEPT ![c] = IF @ < MaxErrors THEN @ + 1 ELSE @]
    /\ pc' = [pc EXCEPT ![c] = "loop"]
    /\ UNCHANGED <<socket, sockst, released, status, tid, script, rcvd, buf,
                   searchPos, line, delivered, sharedVars, extVars>>

\* OnLine returns: in the loop, back to its top; after the loop, on to delete this.
OnLineReturn(c) ==
    /\ ~halted
    /\ UNCHANGED pureVars
    /\ pc[c] \in {"online", "online_last"}
    /\ pc' = [pc EXCEPT ![c] = IF pc[c] = "online" THEN "loop" ELSE "del"]
    /\ UNCHANGED <<socket, sockst, released, status, tid, script, rcvd, buf,
                   searchPos, line, delivered, errors, sharedVars, extVars>>

\* OnLine throws SilentException, which is no boost::system::system_error:
\* no handler of handle_connection catches it, and handle_connection is left
\* by the exception, before delete this.
OnLineThrow(c) ==
    /\ ~halted
    /\ UNCHANGED pureVars
    /\ pc[c] \in {"online", "online_last"}
    /\ pc' = [pc EXCEPT ![c] = "unwound"]
    /\ UNCHANGED <<socket, sockst, released, status, tid, script, rcvd, buf,
                   searchPos, line, delivered, errors, sharedVars, extVars>>

\* After the loop: getline on what is left in b, the CR strip, and
\* OnLine(line) if the line is not empty. _status is not touched.
Drain(c) ==
    /\ ~halted
    /\ UNCHANGED pureVars
    /\ pc[c] = "drain"
    /\ LET t == TakeLine(c)
       IN  /\ buf' = [buf EXCEPT ![c] = t.rest]
           /\ line' = [line EXCEPT ![c] = t.unit]
           /\ IF t.unit # <<>>
              THEN /\ delivered' = [delivered EXCEPT
                                      ![c] = Append(@, [unit |-> t.unit, upto |-> t.upto,
                                                        final |-> TRUE,
                                                        match |-> t.upto])]
                   /\ pc' = [pc EXCEPT ![c] = "online_last"]
              ELSE /\ delivered' = delivered
                   /\ pc' = [pc EXCEPT ![c] = "del"]
    /\ UNCHANGED <<socket, sockst, released, status, tid, script, rcvd,
                   searchPos, errors, sharedVars, extVars>>

(***************************************************************************)
(* ServerSocket::SetCloseAndDelete, under _asio_crash. What _socket->...   *)
(* dereferences: the socket, or nothing valid.                             *)
(***************************************************************************)
SocketDeref(c) ==
    IF pc[c] = "destroyed" THEN "freed_object"
    ELSE IF socket[c] = "null" THEN "null_socket"
    ELSE IF socket[c] = "dangling" THEN "released_socket"
    ELSE "live"

\* _socket->shutdown(shutdown_both) succeeds.
ShutdownOk(c) ==
    /\ SocketDeref(c) = "live"
    /\ sockst[c] # "closed"
    /\ sockst' = [sockst EXCEPT ![c] = "shut"]
    /\ UNCHANGED <<fault, halted>>

\* _socket->shutdown throws: bad_descriptor on a closed socket, not_connected
\* when the peer is gone. The catch swallows or logs it; close() is skipped.
ShutdownThrows(c) ==
    /\ SocketDeref(c) = "live"
    /\ UNCHANGED <<sockst, fault, halted>>

\* _socket is null or dangling, or this itself is freed: undefined behaviour.
\* The process crashes, or the call goes on as if on a closed socket.
ShutdownFault(c) ==
    /\ SocketDeref(c) # "live"
    /\ fault' = SocketDeref(c)
    /\ halted' \in BOOLEAN
    /\ UNCHANGED sockst

\* _socket->close().
CloseSocket(c) == sockst' = [sockst EXCEPT ![c] = "closed"]

(***************************************************************************)
(* delete this at the end of handle_connection: ~ServerSocket.             *)
(***************************************************************************)
\* _status = "close"; then SetCloseAndDelete() waits for _asio_crash.
Delete(c) ==
    /\ ~halted
    /\ UNCHANGED pureVars
    /\ pc[c] = "del"
    /\ pc' = [pc EXCEPT ![c] = "dtor_wait"]
    /\ status' = [status EXCEPT ![c] = "close"]
    /\ UNCHANGED <<socket, sockst, released, tid, script, rcvd, buf, searchPos,
                   line, delivered, errors, sharedVars, extVars>>

DtorLock(c) ==
    /\ ~halted
    /\ UNCHANGED pureVars
    /\ pc[c] = "dtor_wait"
    /\ asio_crash = Free
    /\ asio_crash' = Owner(c)
    /\ pc' = [pc EXCEPT ![c] = "dtor_shutdown"]
    /\ UNCHANGED <<socket, sockst, released, status, tid, script, rcvd, buf,
                   searchPos, line, delivered, errors, sock_list, sock_lock,
                   fault, halted, extVars>>

DtorShutdown(c) ==
    /\ ~halted
    /\ UNCHANGED pureVars
    /\ pc[c] = "dtor_shutdown"
    /\ \/ /\ ShutdownOk(c)
          /\ pc' = [pc EXCEPT ![c] = "dtor_close"]
          /\ UNCHANGED asio_crash
       \/ /\ ShutdownThrows(c)
          /\ pc' = [pc EXCEPT ![c] = "dtor_delete"]
          /\ asio_crash' = Free
    /\ UNCHANGED <<socket, released, status, tid, script, rcvd, buf, searchPos,
                   line, delivered, errors, sock_list, sock_lock, extVars>>

\* DtorClose with the lock_guard of SetCloseAndDelete outliving the call:
\* _asio_crash stays held into the rest of the destructor.
DtorClose_held(c) ==
    /\ ~halted
    /\ UNCHANGED pureVars
    /\ pc[c] = "dtor_close"
    /\ CloseSocket(c)
    /\ asio_crash' = asio_crash
    /\ pc' = [pc EXCEPT ![c] = "dtor_delete"]
    /\ UNCHANGED <<socket, released, status, tid, script, rcvd, buf, searchPos,
                   line, delivered, errors, sock_list, sock_lock, fault, halted,
                   extVars>>

\* _socket->close(), and the lock_guard releases _asio_crash on return.
DtorClose(c) ==
    /\ ~halted
    /\ UNCHANGED pureVars
    /\ pc[c] = "dtor_close"
    /\ CloseSocket(c)
    /\ asio_crash' = Free
    /\ pc' = [pc EXCEPT ![c] = "dtor_delete"]
    /\ UNCHANGED <<socket, released, status, tid, script, rcvd, buf, searchPos,
                   line, delivered, errors, sock_list, sock_lock, fault, halted,
                   extVars>>

\* delete _socket: the socket is destroyed (closed) and its memory released.
DtorDelete(c) ==
    /\ ~halted
    /\ UNCHANGED pureVars
    /\ pc[c] = "dtor_delete"
    /\ socket' = [socket EXCEPT ![c] = "dangling"]
    /\ sockst' = [sockst EXCEPT ![c] = "closed"]
    /\ released' = [released EXCEPT ![c] = @ + 1]
    /\ pc' = [pc EXCEPT ![c] = "dtor_null"]
    /\ UNCHANGED <<status, tid, script, rcvd, buf, searchPos, line, delivered,
                   errors, sharedVars, extVars>>

\* _socket = nullptr.
DtorNull(c) ==
    /\ ~halted
    /\ UNCHANGED pureVars
    /\ pc[c] = "dtor_null"
    /\ socket' = [socket EXCEPT ![c] = "null"]
    /\ pc' = [pc EXCEPT ![c] = "dtor_rem"]
    /\ UNCHANGED <<sockst, released, status, tid, script, rcvd, buf, searchPos,
                   line, delivered, errors, sharedVars, extVars>>

\* rem_sock(this): the lock_guard takes _sock_lock ...
DtorRemLock(c) ==
    /\ ~halted
    /\ UNCHANGED pureVars
    /\ pc[c] = "dtor_rem"
    /\ sock_lock = Free
    /\ sock_lock' = Owner(c)
    /\ pc' = [pc EXCEPT ![c] = "dtor_erase"]
    /\ UNCHANGED <<socket, sockst, released, status, tid, script, rcvd, buf,
                   searchPos, line, delivered, errors, sock_list, asio_crash,
                   fault, halted, extVars>>

\* ... _sock_list.erase(ss), and the lock is released; the destructor
\* returns and the object's memory is freed.
DtorRem(c) ==
    /\ ~halted
    /\ UNCHANGED pureVars
    /\ pc[c] = "dtor_erase"
    /\ sock_lock = Owner(c)
    /\ sock_list' = rem_sock(sock_list, c)
    /\ sock_lock' = Free
    /\ pc' = [pc EXCEPT ![c] = "destroyed"]
    /\ UNCHANGED <<socket, sockst, released, status, tid, script, rcvd, buf,
                   searchPos, line, delivered, errors, asio_crash,
                   fault, halted, extVars>>

(***************************************************************************)
(* SetCloseAndDelete called by a thread other than the connection's own.   *)
(* The call starts on a connection that has a socket and whose destructor  *)
(* has not begun; nothing orders the rest of the call with delete this.    *)
(***************************************************************************)
Callable == {"connected", "loop", "scan", "recv", "online", "drain",
             "online_last", "del"}

ExtCall(t, c) ==
    /\ ~halted
    /\ UNCHANGED pureVars
    /\ tpc[t] = "idle"
    /\ pc[c] \in Callable
    /\ tpc' = [tpc EXCEPT ![t] = "wait"]
    /\ ttarget' = [ttarget EXCEPT ![t] = c]
    /\ UNCHANGED <<connVars, sharedVars>>

ExtLock(t) ==
    /\ ~halted
    /\ UNCHANGED pureVars
    /\ tpc[t] = "wait"
    /\ asio_crash = Free
    /\ asio_crash' = Ext(t)
    /\ tpc' = [tpc EXCEPT ![t] = "shutdown"]
    /\ UNCHANGED <<connVars, sock_list, sock_lock, fault, halted, ttarget>>

ExtShutdown(t) ==
    /\ ~halted
    /\ UNCHANGED pureVars
    /\ tpc[t] = "shutdown"
    /\ \/ /\ ShutdownOk(ttarget[t])
          /\ tpc' = [tpc EXCEPT ![t] = "close"]
          /\ UNCHANGED asio_crash
       \/ /\ ShutdownThrows(ttarget[t])
          /\ tpc' = [tpc EXCEPT ![t] = "idle"]
          /\ asio_crash' = Free
       \/ /\ ShutdownFault(ttarget[t])
          /\ tpc' = [tpc EXCEPT ![t] = "idle"]
          /\ asio_crash' = Free
    /\ UNCHANGED <<pc, socket, released, status, tid, script, rcvd, buf,
                   searchPos, line, delivered, errors, sock_list, sock_lock,
                   ttarget>>

ExtClose(t) ==
    /\ ~halted
    /\ UNCHANGED pureVars
    /\ tpc[t] = "close"
    /\ CloseSocket(ttarget[t])
    /\ asio_crash' = Free
    /\ tpc' = [tpc EXCEPT ![t] = "idle"]
    /\ UNCHANGED <<pc, socket, released, status, tid, script, rcvd, buf,
                   searchPos, line, delivered, errors, sock_list, sock_lock,
                   fault, halted, ttarget>>

(***************************************************************************)
(* Spec: NConns connections, each with a peer that sends up to MaxWire     *)
(* bytes, and NThreads external threads.                                   *)
(***************************************************************************)
InitConns(scripts) ==
    /\ pc = [c \in Conns |-> "none"]
    /\ socket = [c \in Conns |-> "null"]
    /\ sockst = [c \in Conns |-> "open"]
    /\ released = [c \in Conns |-> 0]
    /\ status = [c \in Conns |-> "start"]
    /\ tid = [c \in Conns |-> 0]
    /\ script \in scripts
    /\ rcvd = [c \in Conns |-> 0]
    /\ buf = [c \in Conns |-> <<>>]
    /\ searchPos = [c \in Conns |-> 0]
    /\ line = [c \in Conns |-> <<>>]
    /\ delivered = [c \in Conns |-> <<>>]
    /\ errors = [c \in Conns |-> 0]
    /\ sock_list = {}
    /\ sock_lock = Free
    /\ asio_crash = Free
    /\ tpc = [t \in Threads |-> "idle"]
    /\ ttarget = [t \in Threads |-> 1]
    /\ fault = "none"
    /\ halted = FALSE

\* The variables of the other specifications, at rest.
NoResult == [from |-> 0, pos |-> 0, found |-> FALSE, called |-> FALSE]

ScanIdle ==
    /\ scanBuf = <<>>
    /\ scanFeed = <<>>
    /\ scanPos = 0
    /\ scanRes = NoResult

NoFrame == [opcode |-> 0, masked |-> FALSE, mask |-> <<0, 0, 0, 0>>, payload |-> <<>>]

NoRead == [via |-> "none", frame_io |-> FALSE]

ShakeIdle ==
    /\ hpc = "idle"
    /\ hweb = FALSE
    /\ hscript = <<>>
    /\ hnext = 0
    /\ got_first_line = FALSE
    /\ got_http_header = FALSE
    /\ got_websock_header = FALSE
    /\ do_frame_io = FALSE
    /\ url = <<>>
    /\ webkey = <<>>
    /\ hsent = <<>>
    /\ hconn = <<>>
    /\ hread = NoRead

StatsIdle ==
    /\ spc = "idle"
    /\ stodo = {}
    /\ srows = <<>>

FrameIdle ==
    /\ hostLE = TRUE
    /\ fin = <<>>
    /\ fpc = "idle"
    /\ opcode = 0
    /\ funit = <<>>
    /\ fsized = -1
    /\ fout = <<>>
    /\ fcmd = <<>>
    /\ fmain = NoFrame
    /\ fctl = <<>>

Init ==
    /\ InitConns([Conns -> SeqsUpTo(WireBytes, MaxWire)])
    /\ ScanIdle
    /\ FrameIdle
    /\ ShakeIdle
    /\ StatsIdle

OwnStep(c) ==
    \/ Construct(c)
    \/ set_connection(c)
    \/ HandleConnection(c)
    \/ LoopTop(c)
    \/ ScanMatch(c)
    \/ ScanNoMatch(c)
    \/ RecvData(c)
    \/ RecvBenign(c)
    \/ RecvOther(c)
    \/ OnLineReturn(c)
    \/ OnLineThrow(c)
    \/ Drain(c)
    \/ Delete(c)
    \/ DtorLock(c)
    \/ DtorShutdown(c)
    \/ DtorClose(c)
    \/ DtorDelete(c)
    \/ DtorNull(c)
    \/ DtorRemLock(c)
    \/ DtorRem(c)

ExtStep(t) ==
    \/ \E c \in Conns : ExtCall(t, c)
    \/ ExtLock(t)
    \/ ExtShutdown(t)
    \/ ExtClose(t)

Next ==
    \/ \E c \in Conns : OwnStep(c)
    \/ \E t \in Threads : ExtStep(t)

Spec == Init /\ [][Next]_vars

TypeOK ==
    /\ pc \in [Conns -> {"none", "created", "connected", "loop", "scan", "recv",
                         "online", "drain", "online_last", "del", "unwound",
                         "dtor_wait", "dtor_shutdown", "dtor_close",
                         "dtor_delete", "dtor_null", "dtor_rem", "dtor_erase", "destroyed"}]
    /\ socket \in [Conns -> {"null", "live", "dangling"}]
    /\ sockst \in [Conns -> {"open", "shut", "closed"}]
    /\ released \in [Conns -> 0..1]
    /\ status \in [Conns -> {"start", "iwait", "run", "close"}]
    /\ errors \in [Conns -> 0..MaxErrors]
    /\ sock_list \subseteq Conns
    /\ asio_crash \in {Free} \cup {Owner(c) : c \in Conns} \cup {Ext(t) : t \in Threads}
    /\ sock_lock \in {Free, <<"stats">>} \cup {Owner(c) : c \in Conns}
    /\ spc \in {"idle", "iter"}
    /\ stodo \subseteq Conns
    /\ tpc \in [Threads -> {"idle", "wait", "shutdown", "close"}]
    /\ fault \in {"none", "null_socket", "released_socket", "freed_object"}

(***************************************************************************)
(* SpecLine: connection 1 alone, its peer sending up to MaxLineWire bytes  *)
(* drawn from every class of byte the scanner tells apart.                 *)
(***************************************************************************)
InitLine ==
    /\ InitConns({s \in [Conns -> SeqsUpTo(LineBytes, MaxLineWire)] :
                  \A c \in Conns : c # 1 => s[c] = <<>>})
    /\ ScanIdle
    /\ FrameIdle
    /\ ShakeIdle
    /\ StatsIdle

NextLine == OwnStep(1)

SpecLine == InitLine /\ [][NextLine]_vars

(***************************************************************************)
(* C1 (the claim as stated; the code violates it). Every connection whose  *)
(* read loop has started ends removed from the registry with its socket    *)
(* released exactly once, however the stream ends. Read at the end of the  *)
(* owning thread's run: once that thread has left handle_connection, by    *)
(* return or by an exception, nothing else of the connection will run, so  *)
(* the connection must by then be out of _sock_list and its socket         *)
(* released once.                                                          *)
(***************************************************************************)
LeftHandleConnection(c) == pc[c] \in {"unwound", "destroyed"}

C1_TornDownOnExit ==
    \A c \in Conns :
        LeftHandleConnection(c) => (c \notin sock_list /\ released[c] = 1)

(***************************************************************************)
(* C2 (the claim as stated; the code violates it). No SetCloseAndDelete    *)
(* call operates on a _socket that is null or already released, under any  *)
(* interleaving with the owning thread's read loop and destructor.         *)
(***************************************************************************)
C2_ShutdownOnLiveSocket == fault = "none"

(***************************************************************************)
(* C3. The units passed to OnLine are consecutive pieces of the byte       *)
(* stream, in stream order: unit i is the piece that follows unit i-1,     *)
(* without its ending LF and CR, and no LF lies inside a unit; and an      *)
(* OnLine call of a connection starts only when no OnLine call of that     *)
(* connection is running.                                                  *)
(***************************************************************************)
Piece(c, i) ==
    SubSeq(script[c],
           (IF i = 1 THEN 0 ELSE delivered[c][i - 1].upto) + 1,
           delivered[c][i].upto)

Chomp(raw, b) ==
    IF Len(raw) > 0 /\ raw[Len(raw)] = b THEN SubSeq(raw, 1, Len(raw) - 1) ELSE raw

InStreamOrder(c) ==
    \A i \in 1..Len(delivered[c]) :
        /\ (IF i = 1 THEN 0 ELSE delivered[c][i - 1].upto) < delivered[c][i].upto
        /\ delivered[c][i].upto <= rcvd[c]
        /\ delivered[c][i].unit = Chomp(Chomp(Piece(c, i), LF), CR)
        /\ \A k \in 1..Len(delivered[c][i].unit) : delivered[c][i].unit[k] # LF

InOnLine(c) == pc[c] \in {"online", "online_last"}

C3_UnitsInOrder ==
    /\ [](\A c \in Conns : InStreamOrder(c))
    /\ [][\A c \in Conns :
             Len(delivered'[c]) > Len(delivered[c]) => ~InOnLine(c)]_vars

C3_Witness ==
    \E c \in Conns :
        /\ Len(delivered[c]) >= 2
        /\ delivered[c][1].unit # delivered[c][2].unit
        /\ pc[c] = "destroyed"

(***************************************************************************)
(* C4. A connection is in _sock_list exactly when its constructor has run  *)
(* and its destructor has not yet run to its end; so once every connection *)
(* that was created has been destroyed, _sock_list is empty.               *)
(***************************************************************************)
C4_RegistryIffLive ==
    /\ \A c \in Conns : (c \in sock_list) <=> (pc[c] \notin {"none", "destroyed"})
    /\ (\A c \in Conns : pc[c] \in {"none", "destroyed"}) => sock_list = {}

C4_Witness ==
    /\ \A c \in Conns : pc[c] = "destroyed"
    /\ sock_list = {}

(***************************************************************************)
(* C5 (the claim as stated; the code violates it). Once an unexpected      *)
(* transport error has been logged on a connection, read_until is not      *)
(* entered again on it: the read loop has exited.                          *)
(***************************************************************************)
C5_NoReadAfterError ==
    \A c \in Conns : errors[c] > 0 => pc[c] \notin {"scan", "recv"}

(***************************************************************************)
(* SpecScan: the loop of boost::asio::read_until around the scanner, on    *)
(* every stream of up to MaxScanLen bytes, split in every way between the  *)
(* bytes already buffered and the bytes read_some brings later. Each       *)
(* scanner call searches from search_position to the end of the buffer;    *)
(* after a call without a match search_position is the end of the buffer.  *)
(***************************************************************************)
InitScan ==
    /\ InitConns({[c \in Conns |-> <<>>]})
    /\ \E s \in SeqsUpTo(ScanBytes, MaxScanLen) :
        \E k \in 0..Len(s) :
            /\ scanBuf = SubSeq(s, 1, k)
            /\ scanFeed = SubSeq(s, k + 1, Len(s))
    /\ scanPos = 0
    /\ scanRes = NoResult
    /\ FrameIdle
    /\ ShakeIdle
    /\ StatsIdle

ScanCall ==
    /\ ~scanRes.called
    /\ LET r == match_eol_or_escape(scanBuf, scanPos)
       IN  scanRes' = [from |-> scanPos, pos |-> r.pos, found |-> r.found,
                       called |-> TRUE]
    /\ UNCHANGED <<scanBuf, scanFeed, scanPos, connVars, sharedVars, extVars,
                   frameVars, shakeVars, statsVars>>

ScanRefill ==
    /\ scanRes.called
    /\ ~scanRes.found
    /\ \E k \in 1..Len(scanFeed) :
          /\ scanBuf' = scanBuf \o SubSeq(scanFeed, 1, k)
          /\ scanFeed' = SubSeq(scanFeed, k + 1, Len(scanFeed))
    /\ scanPos' = scanRes.pos
    /\ scanRes' = NoResult
    /\ UNCHANGED <<connVars, sharedVars, extVars, frameVars, shakeVars, statsVars>>

NextScan == ScanCall \/ ScanRefill

SpecScan == InitScan /\ [][NextScan]_vars

\* The bytes the last scanner call examined could reach, and where it
\* stopped among them.
Seen == SubSeq(scanBuf, scanRes.from + 1, Len(scanBuf))
SeenPos == scanRes.pos - scanRes.from

\* Whether byte i of s ends a unit by the 0x04 rule or the IAC rule
HasIacBefore(s, i) == \E j \in 1..(i - 1) : s[j] = IAC
EndsUnitEarly(s, i) == s[i] = EOT \/ (s[i] <= TelnetMax /\ HasIacBefore(s, i))

(***************************************************************************)
(* C6 (the claim as stated; the code violates it). A scanner call on bytes *)
(* that contain a LF reports a match at the first LF, whatever the other   *)
(* bytes are.                                                              *)
(***************************************************************************)
C6_MatchAtFirstLF ==
    (scanRes.called /\ FirstLF(Seen) # 0) =>
        (scanRes.found /\ SeenPos = FirstLF(Seen))

(***************************************************************************)
(* C6 as amended. A scanner call on bytes that contain a LF reports a      *)
(* match at or before the first LF: at the first LF exactly when no byte   *)
(* before it is 0x04 or is a byte <= 0xf0 that follows an IAC; and the     *)
(* result does not depend on the bytes after the first LF.                 *)
(***************************************************************************)
C6_MatchByFirstLF ==
    (scanRes.called /\ FirstLF(Seen) # 0) =>
        LET n == FirstLF(Seen)
            early == {i \in 1..(n - 1) : EndsUnitEarly(Seen, i)}
            cut == match_eol_or_escape(SubSeq(scanBuf, 1, scanRes.from + n),
                                       scanRes.from)
        IN  /\ scanRes.found
            /\ SeenPos <= n
            /\ (SeenPos = n) <=> (early = {})
            /\ cut.found /\ cut.pos = scanRes.pos

C6_Witness ==
    /\ scanRes.called
    /\ scanRes.from = 0
    /\ scanBuf = <<97, LF, EOT>>
    /\ scanRes.found
    /\ scanRes.pos = 2

(***************************************************************************)
(* C7. A scanner call on bytes with no LF and no 0x04 reports no match     *)
(* when they hold no IAC, or hold no byte <= 0xf0 after the first IAC;     *)
(* otherwise it reports a match ending at the first byte <= 0xf0 that      *)
(* comes after the first IAC. Bytes > 0xf0, a second IAC among them, do    *)
(* not end the unit.                                                       *)
(***************************************************************************)
C7_MatchAfterIAC ==
    (scanRes.called /\ \A i \in 1..Len(Seen) : Seen[i] \notin {LF, EOT}) =>
        LET ends == {i \in 1..Len(Seen) : Seen[i] <= TelnetMax /\ HasIacBefore(Seen, i)}
        IN  IF ends = {}
            THEN ~scanRes.found
            ELSE /\ scanRes.found
                 /\ \A i \in ends : SeenPos <= i
                 /\ SeenPos \in ends

C7_Witness ==
    /\ scanRes.called
    /\ scanRes.from = 0
    /\ scanBuf = <<IAC, IAC, 5>>
    /\ scanRes.found
    /\ scanRes.pos = 3

(***************************************************************************)
(* C8 (the claim as stated; the code violates it). When the last byte one  *)
(* scanner call examined is an IAC and the first byte the next call        *)
(* examines is <= 0xf0, the next call reports a match at that byte, as a   *)
(* single call over both bytes does.                                       *)
(***************************************************************************)
C8_IacAcrossRefill ==
    (/\ scanRes.called
     /\ scanRes.from >= 1
     /\ scanBuf[scanRes.from] = IAC
     /\ Len(Seen) >= 1
     /\ Seen[1] <= TelnetMax) =>
        (scanRes.found /\ scanRes.pos = scanRes.from + 1)

(***************************************************************************)
(* The WebSocket frame codec (WebSocket.cc).                               *)
(***************************************************************************)
RECURSIVE BitXor(_, _)
BitXor(a, b) ==
    IF a = 0 THEN b
    ELSE IF b = 0 THEN a
    ELSE 2 * BitXor(a \div 2, b \div 2) + ((a + b) % 2)

\* The value of bytes sent most significant byte first (ntohs, ntohl).
RECURSIVE BEValue(_)
BEValue(bs) ==
    IF bs = <<>> THEN 0
    ELSE 256 * BEValue(SubSeq(bs, 1, Len(bs) - 1)) + bs[Len(bs)]

\* A uint32_t is held as its four bytes, least significant first.
\* LoadWord reads one from four bytes of memory, StoreByte gives byte k
\* (0..3) of the memory of one, on a host of the given byte order.
LoadWord(b4, le) == IF le THEN b4 ELSE <<b4[4], b4[3], b4[2], b4[1]>>

StoreByte(w, k, le) == IF le THEN w[k + 1] ELSE w[4 - k]

WordXor(a, b) == [i \in 1..4 |-> BitXor(a[i], b[i])]

\* (w >> (8*j)) & 0xff
ShiftByte(w, j) == w[j + 1]

\* The value of i when  while (i <= paylen-4) { ...; i += 4; }  ends.
\* BulkEnd_lt is the loop with  i < paylen-4.
BulkEnd_lt(paylen) == IF paylen <= 4 THEN 0 ELSE 4 * ((paylen - 1) \div 4)

BulkEnd(paylen) == 4 * (paylen \div 4)

\* The unmasking of blob, which holds paylen payload bytes and one more:
\* whole words by *dp ^ mask, the paylen%4 bytes after them by
\* data[i+j] ^ ((mask >> (8*j)) & 0xff), then data[paylen] = 0.
Unmask(blob, paylen, m4, le) ==
    LET mask == LoadWord(m4, le)
        i == BulkEnd(paylen)
        word(w) == LoadWord(SubSeq(blob, 4 * w + 1, 4 * w + 4), le)
    IN  [k \in 1..(paylen + 1) |->
            IF k = paylen + 1 THEN 0
            ELSE IF k <= i
                 THEN StoreByte(WordXor(word((k - 1) \div 4), mask), (k - 1) % 4, le)
            ELSE IF k <= i + (paylen % 4)
                 THEN BitXor(blob[k], ShiftByte(mask, k - 1 - i))
            ELSE blob[k]]

\* (1UL << 48) < lung: the ceiling eight bits too high.
InsaneLength_48(b8) ==
    \/ b8[1] > 0
    \/ b8[2] > 1
    \/ b8[2] = 1 /\ \E k \in 3..8 : b8[k] > 0

\* (1UL << 40) < lung, for lung sent as the eight bytes b8, most significant
\* first: 2^40 is the bytes 00 00 01 00 00 00 00 00.
InsaneLength(b8) ==
    \/ b8[1] > 0
    \/ b8[2] > 0
    \/ b8[3] > 1
    \/ b8[3] = 1 /\ \E k \in 4..8 : b8[k] > 0

\* Lengths of 2^30 bytes and more are all held as Far: more bytes than any
\* stream of the model holds, so that the read of the payload cannot end well.
Far == 2 ^ 30

\* lung = ntohl(lunghi) << 32 | ntohl(lunglo)
Lung(b8) ==
    IF (\A k \in 1..4 : b8[k] = 0) /\ b8[5] < 64 THEN BEValue(b8) ELSE Far

\* get_websocket_data on the bytes in: how it ends ("ok", "silent" for
\* SilentException, "eof" for a read past the end of the stream: for a length
\* of Far, that or the std::bad_alloc of blob.resize), the string it returns,
\* the number of bytes it has read, and the size it gave blob (-1 when it
\* ended before blob.resize).
WsData(how, blob, used, sized) ==
    [outcome |-> how, blob |-> blob, used |-> used, sized |-> sized]

get_websocket_data(in, le) ==
    IF Len(in) < 1 THEN WsData("eof", <<>>, Len(in), -1)
    ELSE
      LET mpay == in[1]
          maskbit == mpay >= 128
          paybyte == mpay % 128
          ext == IF paybyte = 126 THEN 2 ELSE IF paybyte = 127 THEN 8 ELSE 0
      IN  IF Len(in) < 1 + ext THEN WsData("eof", <<>>, Len(in), -1)
          ELSE
            LET paylen == IF ext = 0 THEN paybyte
                          ELSE IF ext = 2 THEN BEValue(SubSeq(in, 2, 3))
                          ELSE Lung(SubSeq(in, 2, 9))
                hdr == 1 + ext + 4
            IN  IF ext = 8 /\ InsaneLength(SubSeq(in, 2, 9))
                THEN WsData("silent", <<>>, 1 + ext, -1)
                ELSE IF ~maskbit THEN WsData("silent", <<>>, 1 + ext, -1)
                ELSE IF Len(in) < hdr THEN WsData("eof", <<>>, Len(in), -1)
                ELSE IF Len(in) < hdr + paylen
                THEN WsData("eof", <<>>, Len(in), paylen + 1)
                ELSE WsData("ok",
                            Unmask(SubSeq(in, hdr + 1, hdr + paylen) \o <<0>>, paylen,
                                   SubSeq(in, 1 + ext + 1, hdr), le),
                            hdr + paylen, paylen + 1)

\* Send: boost::asio::write of all the bytes, in order.
Send(out, bytes) == out \o bytes

\* The pong that answers a ping whose data (with its added null byte) is pingd.
Pong(pingd) ==
    LET paylen == Len(pingd) - 1
    IN  <<138, paylen % 256>> \o SubSeq(pingd, 1, paylen)

Drop(in, n) == SubSeq(in, n + 1, Len(in))

\* get_websocket_line: read the byte that holds the opcode.
ReadFop ==
    /\ fpc = "fop"
    /\ IF fin = <<>>
       THEN /\ fpc' = "eof"
            /\ UNCHANGED <<fin, opcode>>
       ELSE /\ opcode' = fin[1] % 16
            /\ fin' = Tail(fin)
            /\ fpc' = "dispatch"
    /\ UNCHANGED <<hostLE, funit, fsized, fout, fcmd, fmain, fctl, scanVars, connVars,
                   sharedVars, extVars, shakeVars, statsVars>>

\* while (9 == opcode or 0xa == opcode): read the data, answer a ping with a
\* pong that copies it, and go on to the next frame.
PingPong ==
    /\ fpc = "dispatch"
    /\ opcode \in {9, 10}
    /\ LET r == get_websocket_data(fin, hostLE)
       IN  /\ fin' = Drop(fin, r.used)
           /\ fsized' = r.sized
           /\ IF r.outcome = "ok"
              THEN /\ fout' = IF opcode = 9 THEN Send(fout, Pong(r.blob)) ELSE fout
                   /\ fpc' = "fop"
              ELSE /\ fout' = fout
                   /\ fpc' = r.outcome
    /\ UNCHANGED <<hostLE, opcode, funit, fcmd, fmain, fctl, scanVars, connVars,
                   sharedVars, extVars, shakeVars, statsVars>>

\* if (8 == opcode) throw SilentException();
CloseFrame ==
    /\ fpc = "dispatch"
    /\ opcode = 8
    /\ fpc' = "silent"
    /\ UNCHANGED <<hostLE, fin, opcode, funit, fsized, fout, fcmd, fmain, fctl, scanVars,
                   connVars, sharedVars, extVars, shakeVars, statsVars>>

\* if (1 != opcode) throw SilentException();
NotText ==
    /\ fpc = "dispatch"
    /\ opcode \notin {1, 8, 9, 10}
    /\ fpc' = "silent"
    /\ UNCHANGED <<hostLE, fin, opcode, funit, fsized, fout, fcmd, fmain, fctl, scanVars,
                   connVars, sharedVars, extVars, shakeVars, statsVars>>

\* TextFrame_binary is TextFrame without the check  if (1 != opcode): a binary
\* frame is decoded and returned as a text frame is.
TextFrame_binary ==
    /\ fpc = "dispatch"
    /\ opcode \in {1, 2}
    /\ LET r == get_websocket_data(fin, hostLE)
       IN  /\ fin' = Drop(fin, r.used)
           /\ fsized' = r.sized
           /\ IF r.outcome = "ok"
              THEN /\ funit' = r.blob
                   /\ fpc' = "returned"
              ELSE /\ funit' = funit
                   /\ fpc' = r.outcome
    /\ UNCHANGED <<hostLE, opcode, fout, fcmd, fmain, fctl, scanVars, connVars,
                   sharedVars, extVars, shakeVars, statsVars>>

\* return get_websocket_data();
TextFrame ==
    /\ fpc = "dispatch"
    /\ opcode = 1
    /\ LET r == get_websocket_data(fin, hostLE)
       IN  /\ fin' = Drop(fin, r.used)
           /\ fsized' = r.sized
           /\ IF r.outcome = "ok"
              THEN /\ funit' = r.blob
                   /\ fpc' = "returned"
              ELSE /\ funit' = funit
                   /\ fpc' = r.outcome
    /\ UNCHANGED <<hostLE, opcode, fout, fcmd, fmain, fctl, scanVars, connVars,
                   sharedVars, extVars, shakeVars, statsVars>>

\* paylen >> n, for the lengths of the model, which are below 2^31.
Shr(x, n) == IF n > 30 THEN 0 ELSE x \div (2 ^ n)

\* The header send_websocket builds for a payload of paylen bytes.
\* WsHeader_le takes paylen <= 126 for the one-byte length.
WsHeader_le(paylen) ==
    IF paylen <= 126 THEN <<129, paylen % 256>>
    ELSE <<129, 126, Shr(paylen, 8) % 256, paylen % 256>>

WsHeader(paylen) ==
    IF paylen < 126 THEN <<129, paylen % 256>>
    ELSE IF paylen < 65536
    THEN <<129, 126, Shr(paylen, 8) % 256, paylen % 256>>
    ELSE <<129, 127,
           Shr(paylen, 56) % 256, Shr(paylen, 48) % 256,
           Shr(paylen, 40) % 256, Shr(paylen, 32) % 256,
           Shr(paylen, 24) % 256, Shr(paylen, 16) % 256,
           Shr(paylen, 8) % 256, paylen % 256>>

\* send_websocket: Send the header ...
SendHeader ==
    /\ fpc = "send"
    /\ fout' = Send(fout, WsHeader(Len(fcmd)))
    /\ fpc' = "send_data"
    /\ UNCHANGED <<hostLE, fin, opcode, funit, fsized, fcmd, fmain, fctl, scanVars,
                   connVars, sharedVars, extVars, shakeVars, statsVars>>

\* ... then  Send(const_buffer(cmd.c_str(), paylen)).
SendData ==
    /\ fpc = "send_data"
    /\ fout' = Send(fout, fcmd)
    /\ fpc' = "sent"
    /\ UNCHANGED <<hostLE, fin, opcode, funit, fsized, fcmd, fmain, fctl, scanVars,
                   connVars, sharedVars, extVars, shakeVars, statsVars>>

(***************************************************************************)
(* SpecFrame: one call of get_websocket_line on the frames a client sent,  *)
(* or one call of send_websocket. The client builds its frames as RFC 6455 *)
(* lays them out: the byte with FIN and the opcode, the length with the    *)
(* mask bit, the mask, and the payload XOR-ed with it byte by byte.        *)
(***************************************************************************)
ClientLength(n, masked) ==
    LET mb == IF masked THEN 128 ELSE 0
    IN  IF n < 126 THEN <<mb + n>>
        ELSE IF n < 65536 THEN <<mb + 126, n \div 256, n % 256>>
        ELSE <<mb + 127, 0, 0, 0, 0, (n \div 16777216) % 256,
               (n \div 65536) % 256, (n \div 256) % 256, n % 256>>

\* A frame with the field declared carries those eight bytes as its length,
\* whatever payload follows them.
ClientFrame(f) ==
    <<128 + f.opcode>> \o
    (IF "declared" \in DOMAIN f
     THEN <<(IF f.masked THEN 128 ELSE 0) + 127>> \o f.declared
     ELSE ClientLength(Len(f.payload), f.masked)) \o
    (IF f.masked
     THEN f.mask \o [k \in 1..Len(f.payload) |->
                        BitXor(f.payload[k], f.mask[((k - 1) % 4) + 1])]
     ELSE f.payload)

RECURSIVE ClientFrames(_)
ClientFrames(fs) ==
    IF fs = <<>> THEN <<>> ELSE ClientFrame(Head(fs)) \o ClientFrames(Tail(fs))

Fill(b, n) == [k \in 1..n |-> b]

PayBytes == {0, 255}
Masks == {<<0, 0, 0, 0>>, <<255, 255, 255, 255>>, <<55, 250, 33, 61>>}
Payloads == SeqsUpTo(PayBytes, MaxPay) \cup {Fill(65, 126)}
MainFrames == [opcode : {1, 2, 8}, masked : BOOLEAN, mask : Masks, payload : Payloads]
CtlFrames ==
    [opcode : {9, 10}, masked : {TRUE}, mask : {<<55, 250, 33, 61>>},
     payload : {<<>>, <<65, 66>>}]
    \cup {[opcode |-> 9, masked |-> TRUE, mask |-> <<55, 250, 33, 61>>,
           payload |-> Fill(66, 126)]}
    \cup {[opcode |-> 9, masked |-> FALSE, mask |-> <<0, 0, 0, 0>>, payload |-> <<65>>]}
\* Frames with a 64-bit length: 2^40 + 1, 2^40, 2^64 - 1, 2^32 and 3.
Declared64 == {<<0, 0, 1, 0, 0, 0, 0, 1>>, <<0, 0, 1, 0, 0, 0, 0, 0>>,
               <<255, 255, 255, 255, 255, 255, 255, 255>>,
               <<0, 0, 0, 1, 0, 0, 0, 0>>, <<0, 0, 0, 0, 0, 0, 0, 3>>}
LongFrames == [opcode : {1, 9}, masked : BOOLEAN, mask : {<<55, 250, 33, 61>>},
               payload : {<<>>, <<255, 0, 0>>}, declared : Declared64]
Cmds == SeqsUpTo(PayBytes, MaxPay) \cup
        {Fill(97, n) : n \in {125, 126, 127, 255, 256, 65535, 65536, 65537}}

InitFrame ==
    /\ InitConns({[c \in Conns |-> <<>>]})
    /\ ScanIdle
    /\ ShakeIdle
    /\ StatsIdle
    /\ opcode = 0
    /\ funit = <<>>
    /\ fsized = -1
    /\ fout = <<>>
    /\ \/ /\ fpc = "fop"
          /\ hostLE \in BOOLEAN
          /\ fmain \in MainFrames \cup LongFrames
          /\ fctl \in SeqsUpTo(CtlFrames, MaxCtl)
          /\ fin = ClientFrames(fctl) \o ClientFrame(fmain)
          /\ fcmd = <<>>
       \/ /\ fpc = "send"
          /\ hostLE = TRUE
          /\ fmain = NoFrame
          /\ fctl = <<>>
          /\ fin = <<>>
          /\ fcmd \in Cmds

NextFrame ==
    \/ ReadFop
    \/ PingPong
    \/ CloseFrame
    \/ NotText
    \/ TextFrame
    \/ SendHeader
    \/ SendData

SpecFrame == InitFrame /\ [][NextFrame]_vars

C10_HeaderLen == IF Len(fcmd) < 126 THEN 2 ELSE IF Len(fcmd) < 65536 THEN 4 ELSE 10

C10_LengthEncoding ==
    fpc = "sent" =>
        LET n == Len(fcmd)
            h == C10_HeaderLen
        IN  /\ Len(fout) = h + n
            /\ fout[1] = 129
            /\ fout[2] < 128
            /\ fout[2] = (IF h = 2 THEN n ELSE IF h = 4 THEN 126 ELSE 127)
            /\ h > 2 => BEValue(SubSeq(fout, 3, h)) = n
            /\ SubSeq(fout, h + 1, h + n) = fcmd

C10_Witness ==
    /\ fpc = "sent"
    /\ Len(fcmd) = 65536
    /\ SubSeq(fout, 1, 10) = <<129, 127, 0, 0, 0, 0, 0, 1, 0, 0>>


(***************************************************************************)
(* C11. When the frame the decoder reads declares a 64-bit length greater  *)
(* than 2^40, get_websocket_data ends in SilentException having read the   *)
(* eight length bytes and nothing after them: the mask and the payload are *)
(* still unread, blob was never sized and no unit is returned.             *)
(***************************************************************************)
\* The lengths of Declared64 above 2^40: 2^40 + 1 and 2^64 - 1.
C11_Insane ==
    /\ "declared" \in DOMAIN fmain
    /\ fmain.declared \in {<<0, 0, 1, 0, 0, 0, 0, 1>>,
                           <<255, 255, 255, 255, 255, 255, 255, 255>>}

\* The decoder has read the length field of the last frame.
C11_LengthRead == Len(fin) <= Len(ClientFrame(fmain)) - 10

C11_InsaneLengthSilent ==
    (C11_Insane /\ C11_LengthRead) =>
        /\ fpc = "silent"
        /\ fin = Drop(ClientFrame(fmain), 10)
        /\ fsized = -1
        /\ funit = <<>>

C11_Witness ==
    /\ fpc = "silent"
    /\ fmain.opcode = 1
    /\ fmain.masked
    /\ "declared" \in DOMAIN fmain
    /\ fmain.declared = <<0, 0, 1, 0, 0, 0, 0, 1>>
    /\ fin = <<55, 250, 33, 61>> \o <<200, 250, 33>>

(***************************************************************************)
(* C12 (the claim as stated; the code violates it). When the decoder       *)
(* returns a unit, the bytes it has sent are, in order, one pong frame for *)
(* each ping frame that came before the text frame, each carrying that     *)
(* ping's payload, and nothing for a pong frame; the unit is the payload   *)
(* of the text frame, never that of a ping or a pong. A pong frame is laid *)
(* out as RFC 6455 lays out an unmasked frame: 0x8A, the length, the       *)
(* payload. Stated for a little-endian host.                               *)
(***************************************************************************)
RECURSIVE C12_Pongs(_)
C12_Pongs(fs) ==
    IF fs = <<>> THEN <<>>
    ELSE (IF Head(fs).opcode = 9
          THEN <<138>> \o ClientLength(Len(Head(fs).payload), FALSE)
                       \o Head(fs).payload
          ELSE <<>>)
         \o C12_Pongs(Tail(fs))

C12_PingsAnswered ==
    (fpc = "returned" /\ hostLE) =>
        /\ fout = C12_Pongs(fctl)
        /\ SubSeq(funit, 1, Len(fmain.payload)) = fmain.payload

(***************************************************************************)
(* C13. get_websocket_line returns a unit only for a text frame (opcode 1) *)
(* whose mask bit is set. Once it has read the opcode of the last frame    *)
(* and has ended: a close frame, a frame of any other opcode than ping,    *)
(* pong and text, and a text or ping frame with the mask bit clear have    *)
(* each ended it in SilentException with no unit returned; so has a ping   *)
(* with the mask bit clear among the frames before.                        *)
(***************************************************************************)
C13_Reached == Len(fin) < Len(ClientFrame(fmain))

C13_Ended == fpc \notin {"fop", "dispatch", "idle", "send", "send_data", "sent"}

C13_OnlyMaskedText ==
    /\ fpc = "returned" => (opcode = 1 /\ fmain.opcode = 1 /\ fmain.masked)
    /\ (C13_Ended /\ C13_Reached /\ fmain.opcode \notin {1, 9, 10}) =>
            (fpc = "silent" /\ funit = <<>>)
    /\ (C13_Ended /\ C13_Reached /\ ~fmain.masked) =>
            (fpc = "silent" /\ funit = <<>>)
    /\ (C13_Ended /\ \E k \in 1..Len(fctl) : ~fctl[k].masked) =>
            (fpc = "silent" /\ funit = <<>> /\ ~C13_Reached)

C13_Witness ==
    /\ fpc = "silent"
    /\ C13_Reached
    /\ fmain.opcode = 1
    /\ ~fmain.masked
    /\ fmain.payload = <<255, 0, 0, 255>>
    /\ fin = fmain.payload

(***************************************************************************)
(* The WebSocket handshake (WebSocket.cc, HandshakeLine), fed line by line *)
(* by the read loop of handle_connection. A line is the sequence of its    *)
(* characters, as the loop hands it to OnLine: the line feed taken off by  *)
(* getline, the carriage return before it by the loop.                     *)
(***************************************************************************)
MaxHsLines == 4      \* lines the peer sends in SpecShake

GetSp == <<"G", "E", "T", " ">>
Upg == <<"U", "p", "g", "r", "a", "d", "e", ":", " ", "w", "e", "b", "s", "o", "c", "k", "e", "t">>
Key == <<"S", "e", "c", "-", "W", "e", "b", "S", "o", "c", "k", "e", "t", "-", "K", "e", "y", ":", " ">>
Magic == <<"258EAFA5-E914-47DA-95CA-C5AB0DC85B11">>

\* 0 == line.compare(0, strlen(p), p). StartsWith_short compares one
\* character less.
StartsWith_short(ln, p) ==
    /\ Len(ln) >= Len(p) - 1
    /\ SubSeq(ln, 1, Len(p) - 1) = SubSeq(p, 1, Len(p) - 1)

StartsWith(ln, p) ==
    /\ Len(ln) >= Len(p)
    /\ SubSeq(ln, 1, Len(p)) = p

\* line.substr(4, line.find(" ", 4) - 4): up to the next space, or to the end
\* of the line when there is none (find gives npos).
UrlOf(ln) ==
    LET sp == {q \in 5..Len(ln) : ln[q] = " "}
        q0 == IF sp = {} THEN Len(ln) + 1 ELSE CHOOSE q \in sp : \A r \in sp : q <= r
    IN  SubSeq(ln, 5, q0 - 1)

\* line.substr(strlen(key))
KeyOf(ln) == SubSeq(ln, Len(Key) + 1, Len(ln))

\* base64_encode(SHA1(_webkey)): a value that the key fixes.
Accept(k) == [b64sha1 |-> k]

\* What the shell answers to a unit: text, not an HTTP response.
Reply(unit) == [code |-> 0, text |-> unit]

Resp501 == [code |-> 501, accept |-> <<>>]
Resp101(b64hash) == [code |-> 101, accept |-> b64hash]

\* ServerSocket::Send(const std::string&) writes the bytes as they are; each
\* entry of hsent also holds _do_frame_io at the time of the call.
RawSend(sent, data, frame_io) ==
    Append(sent, [data |-> data, framed |-> FALSE, frame_io |-> frame_io])

\* An OnConnection call: where it was made from, _got_http_header at that
\* time and what had been sent by then.
OnConnectionCall(calls, from, hdr, sent) ==
    Append(calls, [from |-> from, headers |-> hdr, sent |-> sent])

\* The line of the running OnLine call.
HsLine == hscript[hnext]

\* The OnLine of a connection that serves WebSocket hands its lines to
\* HandshakeLine until the handshake has put the connection in frame mode.
InHandshake == hweb /\ ~do_frame_io

notShake == <<connVars, sharedVars, extVars, scanVars, frameVars, statsVars>>

\* handle_connection up to its loop: OnConnection() is called.
HsEnter ==
    /\ hpc = "start"
    /\ hconn' = OnConnectionCall(hconn, "handle_connection", got_http_header, hsent)
    /\ hpc' = "iwait"
    /\ UNCHANGED <<hweb, hscript, hnext, got_first_line, got_http_header,
                   got_websock_header, do_frame_io, url, webkey, hsent, hread,
                   notShake>>

\* One pass of the loop: read_until with match_eol_or_escape, getline, the
\* strip of the carriage return, then OnLine(line).
HsRead ==
    /\ hpc = "iwait"
    /\ hnext < Len(hscript)
    /\ hnext' = hnext + 1
    /\ hread' = [via |-> "scanner", frame_io |-> do_frame_io]
    /\ hpc' = "online"
    /\ UNCHANGED <<hweb, hscript, got_first_line, got_http_header,
                   got_websock_header, do_frame_io, url, webkey, hsent, hconn,
                   notShake>>

\* read_until throws eof: break, nothing left in the buffer, delete this.
HsEof ==
    /\ hpc = "iwait"
    /\ hnext = Len(hscript)
    /\ hpc' = "done"
    /\ UNCHANGED <<hweb, hscript, hnext, got_first_line, got_http_header,
                   got_websock_header, do_frame_io, url, webkey, hsent, hconn,
                   hread, notShake>>

\* HandshakeLine, the very first line: not "GET " sends the 501 response and
\* throws SilentException, which handle_connection does not catch.
HsFirstLine ==
    /\ hpc = "online"
    /\ InHandshake
    /\ ~got_first_line
    /\ got_first_line' = TRUE
    /\ IF ~StartsWith(HsLine, GetSp)
       THEN /\ hsent' = RawSend(hsent, Resp501, do_frame_io)
            /\ hpc' = "unwound"
            /\ url' = url
       ELSE /\ url' = UrlOf(HsLine)
            /\ hpc' = "iwait"
            /\ hsent' = hsent
    /\ UNCHANGED <<hweb, hscript, hnext, got_http_header, got_websock_header,
                   do_frame_io, webkey, hconn, hread, notShake>>

\* HsHeaderLine_ci matches the Upgrade header without regard to the case of
\* its first letter.
HsHeaderLine_ci ==
    /\ hpc = "online"
    /\ InHandshake
    /\ got_first_line
    /\ ~got_http_header
    /\ HsLine # <<>>
    /\ IF StartsWith(HsLine, Upg) \/ StartsWith(<<"U">> \o Tail(HsLine), Upg)
       THEN got_websock_header' = TRUE /\ webkey' = webkey
       ELSE IF StartsWith(HsLine, Key)
       THEN webkey' = KeyOf(HsLine) /\ got_websock_header' = got_websock_header
       ELSE UNCHANGED <<got_websock_header, webkey>>
    /\ hpc' = "iwait"
    /\ UNCHANGED <<hweb, hscript, hnext, got_first_line, got_http_header,
                   do_frame_io, url, hsent, hconn, hread, notShake>>

\* HandshakeLine, a line of the header: take the Upgrade header and the key.
HsHeaderLine ==
    /\ hpc = "online"
    /\ InHandshake
    /\ got_first_line
    /\ ~got_http_header
    /\ HsLine # <<>>
    /\ IF StartsWith(HsLine, Upg)
       THEN got_websock_header' = TRUE /\ webkey' = webkey
       ELSE IF StartsWith(HsLine, Key)
       THEN webkey' = KeyOf(HsLine) /\ got_websock_header' = got_websock_header
       ELSE UNCHANGED <<got_websock_header, webkey>>
    /\ hpc' = "iwait"
    /\ UNCHANGED <<hweb, hscript, hnext, got_first_line, got_http_header,
                   do_frame_io, url, hsent, hconn, hread, notShake>>

\* HandshakeLine, the empty line (or any line once the header is complete):
\* _got_http_header is set and OnConnection() is called.
HsHeaderEnd ==
    /\ hpc = "online"
    /\ InHandshake
    /\ got_first_line
    /\ got_http_header \/ HsLine = <<>>
    /\ got_http_header' = TRUE
    /\ hconn' = OnConnectionCall(hconn, "HandshakeLine", TRUE, hsent)
    /\ hpc' = "hs_onconn"
    /\ UNCHANGED <<hweb, hscript, hnext, got_first_line, got_websock_header,
                   do_frame_io, url, webkey, hsent, hread, notShake>>

\* HsOnConnReturn_nocheck lacks  if (not _got_websock_header) throw.
HsOnConnReturn_nocheck ==
    /\ hpc = "hs_onconn"
    /\ webkey' = webkey \o Magic
    /\ hsent' = RawSend(hsent, Resp101(Accept(webkey')), do_frame_io)
    /\ do_frame_io' = TRUE
    /\ hpc' = "iwait"
    /\ UNCHANGED <<hweb, hscript, hnext, got_first_line, got_http_header,
                   got_websock_header, url, hconn, hread, notShake>>

\* OnConnection() has returned: without the Upgrade header throw
\* SilentException, else send the 101 response and set _do_frame_io.
HsOnConnReturn ==
    /\ hpc = "hs_onconn"
    /\ IF ~got_websock_header
       THEN /\ hpc' = "unwound"
            /\ UNCHANGED <<webkey, hsent, do_frame_io>>
       ELSE /\ webkey' = webkey \o Magic
            /\ hsent' = RawSend(hsent, Resp101(Accept(webkey')), do_frame_io)
            /\ do_frame_io' = TRUE
            /\ hpc' = "iwait"
    /\ UNCHANGED <<hweb, hscript, hnext, got_first_line, got_http_header,
                   got_websock_header, url, hconn, hread, notShake>>

\* OnConnection() does not like the URL and throws SilentException.
HsOnConnThrow ==
    /\ hpc = "hs_onconn"
    /\ hpc' = "unwound"
    /\ UNCHANGED <<hweb, hscript, hnext, got_first_line, got_http_header,
                   got_websock_header, do_frame_io, url, webkey, hsent, hconn,
                   hread, notShake>>

\* The OnLine of a connection that is not in its handshake: the unit goes to
\* the shell, which may answer through Send.
HsShell ==
    /\ hpc = "online"
    /\ ~InHandshake
    /\ \E reply \in BOOLEAN :
        hsent' = IF reply THEN RawSend(hsent, Reply(HsLine), do_frame_io) ELSE hsent
    /\ hpc' = "iwait"
    /\ UNCHANGED <<hweb, hscript, hnext, got_first_line, got_http_header,
                   got_websock_header, do_frame_io, url, webkey, hconn, hread,
                   notShake>>

(***************************************************************************)
(* SpecShake: one connection, its peer sending up to MaxHsLines lines of   *)
(* a handshake: request lines, headers, the empty line, other text.        *)
(***************************************************************************)
HsLines == {<<"G", "E", "T", " ", "/", "w", "s", " ", "H", "T", "T", "P", "/", "1", ".", "1">>,
            <<"P", "O", "S", "T", " ", "/", " ", "H", "T", "T", "P", "/", "1", ".", "1">>,
            <<"G", "E", "T">>,
            <<>>,
            Upg,
            <<"u", "p", "g", "r", "a", "d", "e", ":", " ", "w", "e", "b", "s", "o", "c", "k", "e", "t">>,
            Key \o <<"k">>}

InitShake ==
    /\ InitConns({[c \in Conns |-> <<>>]})
    /\ ScanIdle
    /\ FrameIdle
    /\ StatsIdle
    /\ hpc = "start"
    /\ hweb \in BOOLEAN
    /\ hscript \in SeqsUpTo(HsLines, MaxHsLines)
    /\ hnext = 0
    /\ got_first_line = FALSE
    /\ got_http_header = FALSE
    /\ got_websock_header = FALSE
    /\ do_frame_io = FALSE
    /\ url = <<>>
    /\ webkey = <<>>
    /\ hsent = <<>>
    /\ hconn = <<>>
    /\ hread = NoRead

NextShake ==
    \/ HsEnter
    \/ HsRead
    \/ HsEof
    \/ HsFirstLine
    \/ HsHeaderLine
    \/ HsHeaderEnd
    \/ HsOnConnReturn
    \/ HsOnConnThrow
    \/ HsShell

SpecShake == InitShake /\ [][NextShake]_vars

Sent101 == \E k \in 1..Len(hsent) : hsent[k].data.code = 101

CallsFrom(from) == {k \in 1..Len(hconn) : hconn[k].from = from}

(***************************************************************************)
(* C14. When the first line handed to HandshakeLine does not begin with    *)
(* "GET ", the call sends the 501 response, once and nothing else, and     *)
(* ends in SilentException: HandshakeLine has not called OnConnection, no  *)
(* 101 response is sent and _do_frame_io stays false.                      *)
(***************************************************************************)
C14_NotGet(ln) == Len(ln) < 4 \/ \E k \in 1..4 : ln[k] # GetSp[k]

C14_NonGetRejected ==
    (hweb /\ hnext >= 1 /\ hpc # "online" /\ C14_NotGet(hscript[1])) =>
        /\ hpc = "unwound"
        /\ hnext = 1
        /\ Len(hsent) = 1
        /\ hsent[1].data = Resp501
        /\ CallsFrom("HandshakeLine") = {}
        /\ ~Sent101
        /\ ~do_frame_io

C14_Witness ==
    /\ hweb
    /\ hpc = "unwound"
    /\ Len(hscript) = 3
    /\ hscript[1] # <<>>
    /\ hscript[1][1] = "P"
    /\ hsent = <<[data |-> Resp501, framed |-> FALSE, frame_io |-> FALSE]>>

(***************************************************************************)
(* C15. In every reachable state, _do_frame_io implies _got_first_line,    *)
(* _got_http_header and _got_websock_header.                               *)
(***************************************************************************)
C15_FrameModeAfterHandshake ==
    do_frame_io => (got_first_line /\ got_http_header /\ got_websock_header)

C15_Witness ==
    /\ do_frame_io
    /\ got_websock_header
    /\ hnext = 3
    /\ hscript[2] = Upg
    /\ hscript[3] = <<>>

(***************************************************************************)
(* C16 (the claim as stated; the code violates it). Once the owning thread *)
(* has left handle_connection, OnConnection has been called exactly once   *)
(* on the connection; on a connection that serves WebSocket that call was  *)
(* made with the header complete and before the 101 response was sent.     *)
(***************************************************************************)
C16_OnConnectionOnce ==
    hpc \in {"done", "unwound"} =>
        /\ Len(hconn) = 1
        /\ hweb => (hconn[1].headers /\
                    \A k \in 1..Len(hconn[1].sent) : hconn[1].sent[k].data.code # 101)

(***************************************************************************)
(* C17 (the claim as stated; the code violates it). Once _do_frame_io is   *)
(* set, every read of the connection goes through the frame decoder,       *)
(* never through the line scanner, and everything sent is framed.          *)
(***************************************************************************)
C17_FrameModeIO ==
    /\ hread.frame_io => hread.via = "frame"
    /\ \A k \in 1..Len(hsent) : hsent[k].frame_io => hsent[k].framed

(***************************************************************************)
(* C18. When the empty line that ends the header is handed to              *)
(* HandshakeLine and no line of the header began with "Upgrade: websocket",*)
(* OnConnection is called and, once it is over, the call ends in           *)
(* SilentException: no 101 response is sent and _do_frame_io stays false.  *)
(***************************************************************************)
C18_IsUpgrade(ln) == Len(ln) >= Len(Upg) /\ \A k \in 1..Len(Upg) : ln[k] = Upg[k]

\* The line the loop took last is the empty line that ends a header with no
\* Upgrade line, and HandshakeLine has been called with it.
C18_PlainHeaderEnded ==
    /\ hweb
    /\ hnext >= 2
    /\ hpc # "online"
    /\ ~C14_NotGet(hscript[1])
    /\ hscript[hnext] = <<>>
    /\ \A k \in 2..(hnext - 1) : hscript[k] # <<>> /\ ~C18_IsUpgrade(hscript[k])

C18_NoUpgradeSilent ==
    C18_PlainHeaderEnded =>
        /\ hpc \in {"hs_onconn", "unwound"}
        /\ Cardinality(CallsFrom("HandshakeLine")) = 1
        /\ ~Sent101
        /\ hsent = <<>>
        /\ ~do_frame_io

C18_Witness ==
    /\ C18_PlainHeaderEnded
    /\ hpc = "unwound"
    /\ hnext = 3
    /\ hscript[2][1] = "u"
    /\ hconn[Len(hconn)].from = "HandshakeLine"

(***************************************************************************)
(* C19 (the claim as stated; the code violates it). _status is "iwait"     *)
(* whenever the owning thread is in read_until, and " run " whenever an    *)
(* OnLine call of the connection is running, the call made after the loop  *)
(* included.                                                               *)
(***************************************************************************)
C19_StatusTracksLoop ==
    \A c \in Conns :
        /\ pc[c] \in {"scan", "recv"} => status[c] = "iwait"
        /\ InOnLine(c) => status[c] = "run"

(***************************************************************************)
(* C20 (the claim as stated; the code violates it). A unit is ended by a   *)
(* delimiter when its piece of the stream ends with LF, with 0x04, or with *)
(* a byte <= 0xF0 that has an IAC before it. Every OnLine call made from   *)
(* inside the loop gets a unit that is; and once the loop is over, bytes   *)
(* left in the buffer that hold no delimiter have all gone to OnLine in    *)
(* one call, the last.                                                     *)
(***************************************************************************)
C20_Delimited(piece) ==
    /\ piece # <<>>
    /\ LET b == piece[Len(piece)]
       IN  \/ b = LF
           \/ b = EOT
           \/ b <= TelnetMax /\ \E k \in 1..(Len(piece) - 1) : piece[k] = IAC

C20_HoldsDelimiter(bytes) ==
    \E n \in 1..Len(bytes) : C20_Delimited(SubSeq(bytes, 1, n))

\* The bytes in the buffer when the loop was left.
C20_Left(c) ==
    LET inloop == {k \in 1..Len(delivered[c]) : ~delivered[c][k].final}
        from == IF inloop = {} THEN 0
                ELSE delivered[c][CHOOSE k \in inloop : \A j \in inloop : j <= k].upto
    IN  SubSeq(script[c], from + 1, rcvd[c])

C20_AfterDrain(c) ==
    pc[c] \in {"online_last", "del", "dtor_wait", "dtor_shutdown", "dtor_close",
               "dtor_delete", "dtor_null", "dtor_rem", "dtor_erase", "destroyed"}

C20_InLoopDelimited ==
    \A c \in Conns : \A k \in 1..Len(delivered[c]) :
        ~delivered[c][k].final => C20_Delimited(Piece(c, k))

C20_LeftoverDelivered ==
    \A c \in Conns :
        (C20_AfterDrain(c) /\ C20_Left(c) # <<>> /\ ~C20_HoldsDelimiter(C20_Left(c))) =>
            /\ delivered[c] # <<>>
            /\ delivered[c][Len(delivered[c])].final
            /\ delivered[c][Len(delivered[c])].unit = C20_Left(c)

C20_OnlyFinalUnitUndelimited == C20_InLoopDelimited /\ C20_LeftoverDelivered

(***************************************************************************)
(* C21 (the claim as stated; the code violates it). Every unit handed to   *)
(* OnLine from inside the loop ends where the scanner's match ended: the   *)
(* bytes taken out of the buffer for it are the bytes up to that place,    *)
(* and the bytes after it stay in the buffer for the next unit.            *)
(***************************************************************************)
C21_UnitEndsAtMatch ==
    \A c \in Conns : \A k \in 1..Len(delivered[c]) :
        ~delivered[c][k].final => delivered[c][k].upto = delivered[c][k].match


(***************************************************************************)
(* SpecStats: display_stats on a thread of its own, against the creation,  *)
(* shutdown and teardown of the connections.  Both locks are held          *)
(* explicitly, step by step, by the thread that took them.                 *)
(***************************************************************************)
Stats == <<"stats">>

\* display_stats without its lock_guard: the loop runs over the registry as
\* it was when the loop started, with _sock_lock left alone.
StatsLock_nolock ==
    /\ ~halted
    /\ spc = "idle"
    /\ spc' = "iter"
    /\ stodo' = sock_list
    /\ srows' = <<>>
    /\ UNCHANGED <<connVars, sharedVars, extVars, scanVars, frameVars,
                   shakeVars>>

\* display_stats: the lock_guard takes _sock_lock; the range-for starts at
\* the beginning of _sock_list.
StatsLock ==
    /\ ~halted
    /\ spc = "idle"
    /\ sock_lock = Free
    /\ sock_lock' = Stats
    /\ spc' = "iter"
    /\ stodo' = sock_list
    /\ srows' = <<>>
    /\ UNCHANGED <<connVars, sock_list, asio_crash, fault, halted, extVars,
                   scanVars, frameVars, shakeVars>>

\* One turn of the loop: ss->connection_stats() reads _start_time, _tid and
\* _status of the next registered object, whatever its thread is doing.
StatsRow ==
    /\ ~halted
    /\ spc = "iter"
    /\ stodo # {}
    /\ LET c == CHOOSE x \in stodo : \A y \in stodo : x <= y
       IN  /\ srows' = Append(srows, [conn |-> c, tid |-> tid[c],
                                      status |-> status[c],
                                      freed |-> pc[c] = "destroyed"])
           /\ stodo' = stodo \ {c}
    /\ UNCHANGED <<spc, connVars, sharedVars, extVars, scanVars, frameVars,
                   shakeVars>>

\* The loop is over: return rc, and the lock_guard releases _sock_lock.
StatsReturn ==
    /\ ~halted
    /\ spc = "iter"
    /\ stodo = {}
    /\ sock_lock' = Free
    /\ spc' = "idle"
    /\ srows' = <<>>
    /\ UNCHANGED <<stodo, connVars, sock_list, asio_crash, fault,
                   halted, extVars, scanVars, frameVars, shakeVars>>

StatsStep ==
    \/ StatsLock
    \/ StatsRow
    \/ StatsReturn

\* The first peer sends one line and closes; the others close at once.
InitStats ==
    /\ InitConns({[c \in Conns |-> IF c = 1 THEN <<LF>> ELSE <<>>]})
    /\ ScanIdle
    /\ FrameIdle
    /\ ShakeIdle
    /\ StatsIdle

NextStats ==
    \/ \E c \in Conns : OwnStep(c)
    \/ \E t \in Threads : ExtStep(t)
    \/ StatsStep

SpecStats == InitStats /\ [][NextStats]_vars


\* The thread holding a lock has a step to take that does not need the other
\* lock.
C22_HolderCanStep ==
    /\ sock_lock # Free =>
           ENABLED (StatsRow \/ StatsReturn \/ \E c \in Conns : DtorRem(c))
    /\ asio_crash # Free =>
           ENABLED (\/ \E c \in Conns : DtorShutdown(c) \/ DtorClose(c)
                    \/ \E t \in Threads : ExtShutdown(t) \/ ExtClose(t))

\* C22: no thread holds _sock_lock and _asio_crash at the same time: the
\* destructor holds _asio_crash only inside SetCloseAndDelete and _sock_lock
\* only inside rem_sock, display_stats holds _sock_lock alone, the callers of
\* SetCloseAndDelete hold _asio_crash alone; so, while the server runs, the
\* holder of either lock can always take its next step.
C22_NeverBothLocks ==
    /\ sock_lock = Free \/ asio_crash # sock_lock
    /\ \A c \in Conns :
           /\ asio_crash = Owner(c) => pc[c] \in {"dtor_shutdown", "dtor_close"}
           /\ sock_lock = Owner(c) => pc[c] = "dtor_erase"
    /\ \A t \in Threads : asio_crash = Ext(t) => tpc[t] \in {"shutdown", "close"}
    /\ sock_lock = Stats => spc = "iter"
    /\ ~halted => C22_HolderCanStep

\* A destructor is inside rem_sock, holding _sock_lock, while another thread
\* holds _asio_crash.
C22_Witness ==
    \E c \in Conns : sock_lock = Owner(c) /\ asio_crash # Free


\* Every row display_stats has read is of an object whose destructor had not
\* returned when it was read.
C23_RowsOfLiveObjects ==
    \A k \in 1..Len(srows) : ~srows[k].freed

\* C23: display_stats reads _start_time, _tid and _status only of objects
\* whose destructor has not completed: it holds _sock_lock from before its
\* first read to after its last, every object it has yet to read is still
\* registered and not freed, and a freed object is no longer registered.
C23_StatsReadsLive ==
    /\ C23_RowsOfLiveObjects
    /\ spc = "iter" =>
           /\ sock_lock = Stats
           /\ stodo \subseteq sock_list
           /\ \A c \in stodo : pc[c] # "destroyed"
    /\ \A c \in Conns : pc[c] = "destroyed" => c \notin sock_list

\* display_stats has read a connection that is inside its destructor, after
\* another connection was torn down and freed.
C23_Witness ==
    /\ spc = "iter"
    /\ \E k \in 1..Len(srows) :
           /\ srows[k].status = "close"
           /\ pc[srows[k].conn] \in {"dtor_wait", "dtor_shutdown", "dtor_close",
                                     "dtor_delete", "dtor_null", "dtor_rem"}
    /\ \E c \in Conns : pc[c] = "destroyed"

=============================================================================
